---- MODULE Spec2Model ----
(***************************************************************************)
(* Model of the picturebox animation timeline engine                       *)
(* (src/picturebox/actor.py): Actor construction, Actor.draw with its      *)
(* phase locator, parameter resolution and stage dispatch, the EnterActor  *)
(* specialisation, two concrete actors (TableGrid, Text) and the perform   *)
(* driver.                                                                  *)
(*                                                                         *)
(* Python numbers are modelled as exact rationals [n, d] (d > 0, lowest    *)
(* terms), callables as records [fn |-> name], booleans passed as          *)
(* parameters as records [b |-> ...].  Python 0-based indexing ts[i] is    *)
(* written At(ts, i).                                                      *)
(***************************************************************************)
EXTENDS Integers, Sequences, FiniteSets, TLC

VARIABLES actors, call, loc, calls, exc

vars == <<actors, call, loc, calls, exc>>

\* ------------------------------------------------------------------ bounds
MaxT == 4          \* largest marker of the enumerated timelines
MaxLen == 5        \* longest enumerated timeline
MaxSpan == 3       \* perform renders at most this many frames
\* arguments of the helpers: integers up to MaxArg, fractions with denominators up to MaxDen
MaxArg == 1
MaxDen == 4
\* timelines of any order: up to MaxAnyLen markers, each at most MaxMark
MaxAnyLen == 4
MaxMark == 3

\* --------------------------------------------------------------- rationals
Abs(x) == IF x < 0 THEN -x ELSE x

RECURSIVE GCD(_, _)
GCD(a, b) == IF b = 0 THEN a ELSE GCD(b, a % b)

Rat(n, d) ==
  LET s == IF d < 0 THEN -1 ELSE 1
      g == GCD(Abs(n), Abs(d))
  IN  [n |-> (s * n) \div g, d |-> (s * d) \div g]

Num(k) == [n |-> k, d |-> 1]
RAdd(a, b) == Rat(a.n * b.d + b.n * a.d, a.d * b.d)
RSub(a, b) == Rat(a.n * b.d - b.n * a.d, a.d * b.d)
RMul(a, b) == Rat(a.n * b.n, a.d * b.d)
RDiv(a, b) == Rat(a.n * b.d, a.d * b.n)
RLess(a, b) == a.n * b.d < b.n * a.d
RLeq(a, b) == a.n * b.d <= b.n * a.d

\* ------------------------------------------------------------- linterp
\* t=(x-x0)/(x1-x0); return (1-t)*y0+t*y1.  Division by x1-x0 = 0 raises.
linterpRaises(x0, x1) == x1 = x0

\* variant: the offset of x from x0 is not taken
linterp_unshifted(x0, y0, x1, y1, x) ==
  LET t == RDiv(x, RSub(x1, x0))
  IN  RAdd(RMul(RSub(Num(1), t), y0), RMul(t, y1))

\* variant: the two end values exchanged
linterp_swapped(x0, y0, x1, y1, x) ==
  LET t == RDiv(RSub(x, x0), RSub(x1, x0))
  IN  RAdd(RMul(RSub(Num(1), t), y1), RMul(t, y0))

linterp(x0, y0, x1, y1, x) ==
  LET t == RDiv(RSub(x, x0), RSub(x1, x0))
  IN  RAdd(RMul(RSub(Num(1), t), y0), RMul(t, y1))

\* --------------------------------------------------------------- smooth
\* variant: the square alone
smooth_square(x) == RMul(x, x)

\* return -2*x**3+3*x**2
smooth(x) == RAdd(RMul(Num(-2), RMul(x, RMul(x, x))), RMul(Num(3), RMul(x, x)))

\* ------------------------------------------------------- python helpers
At(ts, i) == ts[i + 1]            \* ts[i], i >= 0
Last(ts) == ts[Len(ts)]           \* ts[-1]

callable(v) == "fn" \in DOMAIN v

Truthy(v) ==
  IF "fn" \in DOMAIN v THEN TRUE
  ELSE IF "b" \in DOMAIN v THEN v.b
  ELSE v.n # 0

\* user-supplied resolvers f(phase, tt)
Apply(f, phase, tt) ==
  CASE f.fn = "phaseOf" -> Num(phase)
    [] f.fn = "ttOf"    -> tt
    [] f.fn = "never"   -> [b |-> FALSE]
    [] f.fn = "inAct"   -> [b |-> phase >= 1]
    [] f.fn = "inverse" -> Rat(1, phase)

\* lambda phase,tt: 1/phase  divides by zero in the enter phase
ApplyRaises(f, phase, tt) == f.fn = "inverse" /\ phase = 0

\* dict built from an ordered sequence of <<key, value>> pairs (keys distinct)
DictOf(kv) ==
  [k \in {kv[i][1] : i \in DOMAIN kv} |-> kv[CHOOSE i \in DOMAIN kv : kv[i][1] = k][2]]

\* d[k] = v
DictSet(d, k, v) == [x \in (DOMAIN d) \cup {k} |-> IF x = k THEN v ELSE d[x]]

\* d without the keys ks (named parameters taken out of **kwargs)
DictDrop(d, ks) == [x \in (DOMAIN d) \ ks |-> d[x]]

IsCallablePair(p) == callable(p[2])

\* --------------------------------------------------------- Actor.__init__
Actor_init(cls, ts, has_shadow, kwargs) ==
  [cls        |-> cls,
   ts         |-> ts,
   callables  |-> (IF callable(has_shadow) THEN << <<"has_shadow", has_shadow>> >> ELSE <<>>)
                  \o SelectSeq(kwargs, IsCallablePair),
   kwargs     |-> DictOf(kwargs),
   has_shadow |-> has_shadow]

\* ------------------------------------------------------------ call trace
\* Every resolver evaluation, stage-handler invocation and canvas primitive
\* of a call is appended to a trace; handlers return [log, exc].
shadowcolor == [s |-> "#a0a0c0"]

EvEnter(cls, tt, alpha, shadow, kw) ==
  [op |-> "_enter", cls |-> cls, tt |-> tt, alpha |-> alpha, shadow |-> shadow, kw |-> kw]
EvAct(cls, phase, tt, alpha, shadow, kw) ==
  [op |-> "_act", cls |-> cls, phase |-> phase, tt |-> tt, alpha |-> alpha,
   shadow |-> shadow, kw |-> kw]
EvLeave(cls, tt, alpha, shadow, kw) ==
  [op |-> "_leave", cls |-> cls, tt |-> tt, alpha |-> alpha, shadow |-> shadow, kw |-> kw]
EvPrim(name, args, kw) == [op |-> name, args |-> args, kw |-> kw]
EvResolve(k, phase, tt) == [op |-> "resolve", k |-> k, phase |-> phase, tt |-> tt]

Returned(log) == [log |-> log, exc |-> "none"]
Raised(log, e) == [log |-> log, exc |-> e]

\* --------------------------------------------------------- stage handlers
\* variant: the abstract act returns instead of raising
Actor_act_silent(phase, tt, alpha, shadow, kw) ==
  Returned(<<EvAct("Actor", phase, tt, alpha, shadow, kw)>>)

\* Actor._act: abstract
Actor_act(phase, tt, alpha, shadow, kw) ==
  Raised(<<EvAct("Actor", phase, tt, alpha, shadow, kw)>>, "NotImplementedError")

\* TableGrid._act
RECURSIVE TableGridColumns(_, _, _, _, _)
TableGridColumns(xs, yt, yb, alpha, kwargs) ==
  IF xs = <<>> THEN <<>>
  ELSE <<EvPrim("line", <<Head(xs), yt, Head(xs), yb>>, DictSet(kwargs, "alpha", alpha))>>
       \o TableGridColumns(Tail(xs), yt, yb, alpha, kwargs)

TableGrid_act(phase, tt, alpha, shadow, kw) ==
  LET kwargs == DictDrop(kw, {"x0", "x1", "yt", "y0", "yb", "xs"})
      me == <<EvAct("TableGrid", phase, tt, alpha, shadow, kw)>>
  IN  IF shadow THEN Returned(me)
      ELSE Returned(me
             \o <<EvPrim("line", <<kw.x0, kw.y0, kw.x1, kw.y0>>, DictSet(kwargs, "alpha", alpha))>>
             \o TableGridColumns(kw.xs.list, kw.yt, kw.yb, alpha, kwargs))

\* EnterActor._enter: abstract
EnterActor_enter(tt, alpha, shadow, kw) ==
  Raised(<<EvEnter("EnterActor", tt, alpha, shadow, kw)>>, "NotImplementedError")

\* Text._enter
Text_enter(tt, alpha, shadow, kw) ==
  LET xofs == IF shadow THEN Num(5) ELSE Num(0)
      yofs == IF shadow THEN Num(5) ELSE Num(0)
      k0 == DictDrop(kw, {"x", "y", "s"})
      k1 == IF shadow THEN DictSet(k0, "color", shadowcolor) ELSE k0
      k2 == DictSet(k1, "alpha", RMul(tt, alpha))
  IN  Returned(<<EvEnter("Text", tt, alpha, shadow, kw),
                 EvPrim("text", <<RAdd(xofs, kw.x), RAdd(yofs, kw.y), kw.s>>, k2)>>)

\* self._enter as seen from EnterActor._act (EnterActor and its subclasses)
EnterActor_self_enter(cls, tt, alpha, shadow, kw) ==
  IF cls = "Text" THEN Text_enter(tt, alpha, shadow, kw)
  ELSE EnterActor_enter(tt, alpha, shadow, kw)

\* a handler that logs its own invocation and then makes the call r
After(ev, r) == [log |-> <<ev>> \o r.log, exc |-> r.exc]

\* variant: act forwards its own local time to enter
EnterActor_act_live(cls, phase, tt, alpha, shadow, kw) ==
  After(EvAct("EnterActor", phase, tt, alpha, shadow, kw),
        EnterActor_self_enter(cls, tt, alpha, shadow, kw))

\* EnterActor._act: self._enter(pb,1,alpha=alpha,shadow=shadow,**kwargs)
EnterActor_act(cls, phase, tt, alpha, shadow, kw) ==
  After(EvAct("EnterActor", phase, tt, alpha, shadow, kw),
        EnterActor_self_enter(cls, Num(1), alpha, shadow, kw))

\* self._act: method resolution by class
self_act(cls, phase, tt, alpha, shadow, kw) ==
  CASE cls = "Actor"     -> Actor_act(phase, tt, alpha, shadow, kw)
    [] cls = "TableGrid" -> TableGrid_act(phase, tt, alpha, shadow, kw)
    [] OTHER             -> EnterActor_act(cls, phase, tt, alpha, shadow, kw)

\* variant: the default enter does not scale alpha
Actor_enter_nofade(cls, tt, alpha, shadow, kw) ==
  After(EvEnter("Actor", tt, alpha, shadow, kw),
        self_act(cls, 0, Num(0), alpha, shadow, kw))

\* Actor._enter: self._act(pb=pb, phase=0, tt=0, alpha=alpha*tt, shadow=shadow, **kwargs)
Actor_enter(cls, tt, alpha, shadow, kw) ==
  After(EvEnter("Actor", tt, alpha, shadow, kw),
        self_act(cls, 0, Num(0), RMul(alpha, tt), shadow, kw))

\* variant: the default leave fades in
Actor_leave_fadein(cls, tt, alpha, shadow, kw) ==
  After(EvLeave("Actor", tt, alpha, shadow, kw),
        self_act(cls, -1, Num(1), RMul(alpha, tt), shadow, kw))

\* Actor._leave: self._act(pb, phase=-1, tt=1, alpha=alpha*(1-tt), shadow=shadow, **kwargs)
Actor_leave(cls, tt, alpha, shadow, kw) ==
  After(EvLeave("Actor", tt, alpha, shadow, kw),
        self_act(cls, -1, Num(1), RMul(alpha, RSub(Num(1), tt)), shadow, kw))

\* self._enter: method resolution by class
self_enter(cls, tt, alpha, shadow, kw) ==
  CASE cls \in {"Actor", "TableGrid"} -> Actor_enter(cls, tt, alpha, shadow, kw)
    [] cls = "Text"                    -> Text_enter(tt, alpha, shadow, kw)
    [] OTHER                           -> EnterActor_enter(tt, alpha, shadow, kw)

\* self._leave: no class of the model overrides it
self_leave(cls, tt, alpha, shadow, kw) == Actor_leave(cls, tt, alpha, shadow, kw)

\* ------------------------------------------------------------ Actor.draw
\* variant: the closed range of the older revision
draw_skips_closed(a, t, shadow) ==
  t < At(a.ts, 0) \/ t > Last(a.ts) \/ (shadow /\ ~Truthy(a.has_shadow))

\* the early return: out of range, or shadow pass of an actor without shadow
draw_skips(a, t, shadow) ==
  t < At(a.ts, 0) \/ t >= Last(a.ts) \/ (shadow /\ ~Truthy(a.has_shadow))

\* variant: the local time runs from 1 down to 0
draw_hit_reversed(ts, t, i_phase) ==
  IF linterpRaises(Num(At(ts, i_phase)), Num(At(ts, i_phase + 1)))
    THEN [found |-> FALSE, exc |-> "ZeroDivisionError"]
    ELSE [found |-> TRUE, exc |-> "none", i_phase |-> i_phase,
          tt |-> linterp(Num(At(ts, i_phase)), Num(1),
                         Num(At(ts, i_phase + 1)), Num(0), Num(t))]

\* the body of the scan at an index whose test t<self.ts[i_phase+1] succeeded
draw_hit(ts, t, i_phase) ==
  IF linterpRaises(Num(At(ts, i_phase)), Num(At(ts, i_phase + 1)))
    THEN [found |-> FALSE, exc |-> "ZeroDivisionError"]
    ELSE [found |-> TRUE, exc |-> "none", i_phase |-> i_phase,
          tt |-> linterp(Num(At(ts, i_phase)), Num(0),
                         Num(At(ts, i_phase + 1)), Num(1), Num(t))]

\* variant: the scan compares with <=
RECURSIVE draw_scan_leq(_, _, _)
draw_scan_leq(ts, t, i_phase) ==
  IF i_phase >= Len(ts) - 1 THEN [found |-> FALSE, exc |-> "none"]
  ELSE IF t <= At(ts, i_phase + 1) THEN draw_hit(ts, t, i_phase)
  ELSE draw_scan_leq(ts, t, i_phase + 1)

\* variant: the scan stops one interval short
RECURSIVE draw_scan_short(_, _, _)
draw_scan_short(ts, t, i_phase) ==
  IF i_phase >= Len(ts) - 2 THEN [found |-> FALSE, exc |-> "none"]
  ELSE IF t < At(ts, i_phase + 1) THEN draw_hit(ts, t, i_phase)
  ELSE draw_scan_short(ts, t, i_phase + 1)

\* for i_phase in range(len(self.ts)-1): if t<self.ts[i_phase+1]: ... break
RECURSIVE draw_scan(_, _, _)
draw_scan(ts, t, i_phase) ==
  IF i_phase >= Len(ts) - 1 THEN [found |-> FALSE, exc |-> "none"]
  ELSE IF t < At(ts, i_phase + 1) THEN draw_hit(ts, t, i_phase)
  ELSE draw_scan(ts, t, i_phase + 1)

\* if phase is None: phase=-1; tt=1.0
draw_fallback(sc) ==
  IF sc.found THEN [phase |-> sc.i_phase, tt |-> sc.tt]
  ELSE [phase |-> -1, tt |-> Num(1)]

\* variant: the last interval keeps its index
draw_remap_never(ts, phase) == phase

\* variant: the remap starts one interval early
draw_remap_early(ts, phase) == IF phase >= Len(ts) - 3 THEN -1 ELSE phase

\* if phase==len(self.ts)-2: phase=-1
draw_remap(ts, phase) == IF phase = Len(ts) - 2 THEN -1 ELSE phase

\* variant: the resolvers are evaluated but their values are not stored
RECURSIVE set_kwargs_stale(_, _, _, _)
set_kwargs_stale(callables, kwargs, phase, tt) ==
  IF callables = <<>> THEN [kwargs |-> kwargs, log |-> <<>>, exc |-> "none"]
  ELSE [kwargs |-> kwargs,
        log |-> <<EvResolve(Head(callables)[1], phase, tt)>>
                \o set_kwargs_stale(Tail(callables), kwargs, phase, tt).log,
        exc |-> "none"]

\* variant: a value resolved by an earlier call is kept
RECURSIVE set_kwargs_cached(_, _, _, _)
set_kwargs_cached(callables, kwargs, phase, tt) ==
  IF callables = <<>> THEN [kwargs |-> kwargs, log |-> <<>>, exc |-> "none"]
  ELSE IF Head(callables)[1] \in DOMAIN kwargs /\ ~callable(kwargs[Head(callables)[1]])
    THEN set_kwargs_cached(Tail(callables), kwargs, phase, tt)
  ELSE [kwargs |-> set_kwargs_cached(Tail(callables),
                     DictSet(kwargs, Head(callables)[1], Apply(Head(callables)[2], phase, tt)),
                     phase, tt).kwargs,
        log |-> <<EvResolve(Head(callables)[1], phase, tt)>>, exc |-> "none"]

\* one resolver evaluated (logged), then the remaining ones (r)
Resolving(k, phase, tt, r) ==
  [kwargs |-> r.kwargs, log |-> <<EvResolve(k, phase, tt)>> \o r.log, exc |-> r.exc]

\* Actor._set_kwargs: self.kwargs[k]=f(phase,tt) for every callable, in order;
\* a resolver that raises ends the loop with the values stored so far
RECURSIVE set_kwargs(_, _, _, _)
set_kwargs(callables, kwargs, phase, tt) ==
  IF callables = <<>> THEN [kwargs |-> kwargs, log |-> <<>>, exc |-> "none"]
  ELSE IF ApplyRaises(Head(callables)[2], phase, tt)
    THEN [kwargs |-> kwargs, log |-> <<EvResolve(Head(callables)[1], phase, tt)>>,
          exc |-> "ZeroDivisionError"]
  ELSE Resolving(Head(callables)[1], phase, tt,
         set_kwargs(Tail(callables),
                    DictSet(kwargs, Head(callables)[1], Apply(Head(callables)[2], phase, tt)),
                    phase, tt))

\* variant: the handlers' default alpha is 2
BindAlpha_bright(kwargs) == IF "alpha" \in DOMAIN kwargs THEN kwargs.alpha ELSE Num(2)

\* binding of **self.kwargs to the handler signature (alpha=1.0 by default)
BindAlpha(kwargs) == IF "alpha" \in DOMAIN kwargs THEN kwargs.alpha ELSE Num(1)
BindRest(kwargs) == DictDrop(kwargs, {"alpha"})

\* variant: interior phases are routed to leave
draw_dispatch_noact(cls, phase, tt, shadow, kwargs) ==
  IF phase = 0
    THEN self_enter(cls, tt, BindAlpha(kwargs), shadow, BindRest(kwargs))
  ELSE self_leave(cls, tt, BindAlpha(kwargs), shadow, BindRest(kwargs))

\* if phase==0: _enter  elif phase==-1: _leave  else: _act
draw_dispatch(cls, phase, tt, shadow, kwargs) ==
  IF phase = 0
    THEN self_enter(cls, tt, BindAlpha(kwargs), shadow, BindRest(kwargs))
  ELSE IF phase = -1
    THEN self_leave(cls, tt, BindAlpha(kwargs), shadow, BindRest(kwargs))
  ELSE self_act(cls, phase, tt, BindAlpha(kwargs), shadow, BindRest(kwargs))

\* the outcome of a draw call that went through resolution (sk) and dispatch
\* (r): the actor afterwards, the locals at the dispatch, the trace, the error
draw_done(a, lc, sk, r) ==
  [actor |-> [a EXCEPT !.kwargs = sk.kwargs], loc |-> lc,
   log |-> sk.log \o r.log, exc |-> r.exc]

\* variant: the dispatch follows a resolution that raised
draw_resolved_anyway(a, shadow, lc, sk) ==
  draw_done(a, lc, sk, draw_dispatch(a.cls, lc.phase, lc.tt, shadow, sk.kwargs))

\* lines 197-203: self._set_kwargs(phase, tt) has run (sk); dispatch
draw_resolved(a, shadow, lc, sk) ==
  IF sk.exc # "none"
    THEN [actor |-> [a EXCEPT !.kwargs = sk.kwargs],
          loc |-> [lc EXCEPT !.ret = "raise"], log |-> sk.log, exc |-> sk.exc]
    ELSE draw_done(a, lc, sk, draw_dispatch(a.cls, lc.phase, lc.tt, shadow, sk.kwargs))

\* lines 192-197: fallback and remap of the scan's result, then resolution
draw_located(a, shadow, lc) ==
  draw_resolved(a, shadow, lc, set_kwargs(a.callables, a.kwargs, lc.phase, lc.tt))

draw_locals(ts, found, fb) ==
  [ret |-> "dispatch", found |-> found, i_phase |-> fb.phase,
   phase |-> draw_remap(ts, fb.phase), tt |-> fb.tt]

draw_scanned(a, shadow, sc) ==
  IF sc.exc # "none"
    THEN [actor |-> a, loc |-> [ret |-> "raise"], log |-> <<>>, exc |-> sc.exc]
    ELSE draw_located(a, shadow, draw_locals(a.ts, sc.found, draw_fallback(sc)))

\* Actor.draw(pb, t, shadow)
draw(a, t, shadow) ==
  IF draw_skips(a, t, shadow)
    THEN [actor |-> a, loc |-> [ret |-> "skip"], log |-> <<>>, exc |-> "none"]
    ELSE draw_scanned(a, shadow, draw_scan(a.ts, t, 0))

\* ------------------------------------------- Actor.draw, older revision
\* Actor.enter of the older revision: raise NotImplementedError
older_enter(tt, alpha, shadow) ==
  Raised(<<[op |-> "enter", tt |-> tt, alpha |-> alpha, shadow |-> shadow]>>,
         "NotImplementedError")

\* Actor.act: self.enter(pb,1,alpha=alpha,shadow=shadow)
older_act(phase, tt, alpha, shadow) ==
  After([op |-> "act", phase |-> phase, tt |-> tt, alpha |-> alpha, shadow |-> shadow],
        older_enter(Num(1), alpha, shadow))

\* Actor.leave: self.enter(pb,1,alpha=alpha*(1-tt),shadow=shadow)
older_leave(tt, alpha, shadow) ==
  After([op |-> "leave", tt |-> tt, alpha |-> alpha, shadow |-> shadow],
        older_enter(Num(1), RMul(alpha, RSub(Num(1), tt)), shadow))

\* the handler call of a branch of draw, after its linterp argument tt
older_call(stage, phase, tt, shadow) ==
  CASE stage = "enter" -> older_enter(tt, Num(1), shadow)
    [] stage = "leave" -> older_leave(tt, Num(1), shadow)
    [] OTHER           -> older_act(phase, tt, Num(1), shadow)

older_dispatched(stage, phase, tt, r) ==
  [loc |-> [ret |-> "dispatch", stage |-> stage, phase |-> phase, tt |-> tt],
   log |-> r.log, exc |-> r.exc]

\* self.<stage>(pb, linterp(self.ts[i],0,self.ts[i+1],1,t), shadow=shadow);
\* phase is the act handler's argument
older_branch(stage, phase, ts, t, i, shadow) ==
  IF linterpRaises(Num(At(ts, i)), Num(At(ts, i + 1)))
    THEN [loc |-> [ret |-> "raise"], log |-> <<>>, exc |-> "ZeroDivisionError"]
    ELSE older_dispatched(stage, phase,
           linterp(Num(At(ts, i)), Num(0), Num(At(ts, i + 1)), Num(1), Num(t)),
           older_call(stage, phase,
             linterp(Num(At(ts, i)), Num(0), Num(At(ts, i + 1)), Num(1), Num(t)), shadow))

\* for phase in range(len(self.ts)-3): if t<self.ts[phase+2]: self.act(...); return
RECURSIVE older_scan(_, _, _, _)
older_scan(ts, t, shadow, phase) ==
  IF phase >= Len(ts) - 3 THEN [loc |-> [ret |-> "none"], log |-> <<>>, exc |-> "none"]
  ELSE IF t < At(ts, phase + 2) THEN older_branch("act", phase, ts, t, phase + 1, shadow)
  ELSE older_scan(ts, t, shadow, phase + 1)

\* variant: the range check of the later revision
older_draw_open(ts, t, shadow) ==
  IF t < At(ts, 0) \/ t >= Last(ts)
    THEN [loc |-> [ret |-> "skip"], log |-> <<>>, exc |-> "none"]
  ELSE IF t < At(ts, 1) THEN older_branch("enter", 0, ts, t, 0, shadow)
  ELSE IF t >= At(ts, Len(ts) - 2) THEN older_branch("leave", 0, ts, t, Len(ts) - 2, shadow)
  ELSE older_scan(ts, t, shadow, 0)

\* Actor.draw(pb, t, shadow) of the older revision
older_draw(ts, t, shadow) ==
  IF t < At(ts, 0) \/ t > Last(ts)
    THEN [loc |-> [ret |-> "skip"], log |-> <<>>, exc |-> "none"]
  ELSE IF t < At(ts, 1) THEN older_branch("enter", 0, ts, t, 0, shadow)
  ELSE IF t >= At(ts, Len(ts) - 2) THEN older_branch("leave", 0, ts, t, Len(ts) - 2, shadow)
  ELSE older_scan(ts, t, shadow, 0)

\* ---------------------------------------------------------------- perform
EvDraw(i, t, shadow) == [op |-> "draw", i |-> i, t |-> t, shadow |-> shadow]

\* decimal digits of n >= 0, most significant first
RECURSIVE Digits(_)
Digits(n) == IF n < 10 THEN <<n>> ELSE Digits(n \div 10) \o <<n % 10>>

\* oufn_pat%i_frame for a pattern of the form  prefix + "%d" + suffix
Format(oufn_pat, i_frame) ==
  <<oufn_pat.pre>>
  \o (IF i_frame < 0 THEN <<"-">> ELSE <<>>) \o Digits(Abs(i_frame))
  \o <<oufn_pat.post>>

NoCalls(as) == [actors |-> as, log |-> <<>>, exc |-> "none"]

\* the calls of log, then the run r (actors, log, exc) that follows them
Seq2(log, r) == [actors |-> r.actors, log |-> log \o r.log, exc |-> r.exc]

\* a run that ends in the draw call d of actor i raising
Aborted(as, i, d) ==
  [actors |-> [as EXCEPT ![i] = d.actor], log |-> d.log, exc |-> d.exc]

\* for actor in actors: actor.draw(pb,i_frame,shadow=...)   (from actor i on)
RECURSIVE perform_pass(_, _, _, _)
RECURSIVE perform_pass_drawn(_, _, _, _, _)
\* variant: a draw call that raises is passed over
perform_pass_isolated(as, i, i_frame, shadow, d) ==
  Seq2(d.log, perform_pass([as EXCEPT ![i] = d.actor], i + 1, i_frame, shadow))

perform_pass_drawn(as, i, i_frame, shadow, d) ==
  IF d.exc # "none" THEN Aborted(as, i, d)
  ELSE Seq2(d.log, perform_pass([as EXCEPT ![i] = d.actor], i + 1, i_frame, shadow))

perform_pass(as, i, i_frame, shadow) ==
  IF i > Len(as) THEN NoCalls(as)
  ELSE Seq2(<<EvDraw(i, i_frame, shadow)>>,
            perform_pass_drawn(as, i, i_frame, shadow, draw(as[i], i_frame, shadow)))

\* pb.update(); pb.savepng(oufn_pat%i_frame), after the main pass mn
perform_frame_end(i_frame, oufn_pat, mn) ==
  IF mn.exc # "none" THEN mn
  ELSE Seq2(mn.log, [actors |-> mn.actors, exc |-> "none",
                     log |-> <<[op |-> "update"],
                               [op |-> "savepng", oufn |-> Format(oufn_pat, i_frame)]>>])

\* the main pass and the end of the frame, after the shadow pass sh
perform_frame_main(i_frame, oufn_pat, sh) ==
  IF sh.exc # "none" THEN sh
  ELSE Seq2(sh.log, perform_frame_end(i_frame, oufn_pat,
                                      perform_pass(sh.actors, 1, i_frame, FALSE)))

\* variant: the shadow pass runs whatever the shadow argument
perform_frame_shadowed(as, i_frame, oufn_pat, shadow) ==
  Seq2(<<[op |-> "clear"]>>,
       perform_frame_main(i_frame, oufn_pat, perform_pass(as, 1, i_frame, TRUE)))

\* the body of the frame loop
perform_frame(as, i_frame, oufn_pat, shadow) ==
  Seq2(<<[op |-> "clear"]>>,
       perform_frame_main(i_frame, oufn_pat,
                          IF shadow THEN perform_pass(as, 1, i_frame, TRUE) ELSE NoCalls(as)))

\* for i_frame in range(f0,f1): ...
RECURSIVE perform(_, _, _, _, _)
RECURSIVE perform_rest(_, _, _, _, _)
perform_rest(fr, f0, f1, oufn_pat, shadow) ==
  IF fr.exc # "none" THEN fr
  ELSE Seq2(fr.log, perform(fr.actors, f0 + 1, f1, oufn_pat, shadow))

\* variant: the frame range includes f1
perform_inclusive(as, f0, f1, oufn_pat, shadow) ==
  IF f0 > f1 THEN NoCalls(as)
  ELSE perform_rest(perform_frame(as, f0, oufn_pat, shadow), f0, f1, oufn_pat, shadow)

perform(as, f0, f1, oufn_pat, shadow) ==
  IF f0 >= f1 THEN NoCalls(as)
  ELSE perform_rest(perform_frame(as, f0, oufn_pat, shadow), f0, f1, oufn_pat, shadow)

\* ------------------------------------------------------- enumerated inputs
StrictlyIncreasing(ts) == \A i \in 1..(Len(ts) - 1) : ts[i] < ts[i + 1]

LongTimeline == <<0, 10, 50, 60>>

ShiftedTimeline == <<1, 2, 4, 5, 6>>

Timelines ==
  {LongTimeline, ShiftedTimeline} \cup
  UNION {{ts \in [1..n -> 0..MaxT] : ts[1] = 0 /\ StrictlyIncreasing(ts)} : n \in 4..MaxLen}

Classes == {"Actor", "TableGrid", "EnterActor", "Text"}

\* keyword arguments every actor of a class is constructed with
Geometry(cls) ==
  CASE cls = "TableGrid" -> << <<"x0", Num(0)>>, <<"x1", Num(4)>>, <<"yt", Num(0)>>,
                              <<"y0", Num(1)>>, <<"yb", Num(3)>>,
                              <<"xs", [list |-> <<Num(1), Num(2)>>]>> >>
    [] cls \in {"Text", "EnterActor"} -> << <<"x", Num(3)>>, <<"y", Num(4)>>,
                                            <<"s", [s |-> "Hello"]>> >>
    [] OTHER -> <<>>

\* has_shadow and the further keyword arguments of a construction: constants
\* and functions of (phase, tt)
Constructions ==
  { <<[b |-> TRUE], <<>> >>,
    <<[b |-> FALSE], << <<"color", [s |-> "red"]>>, <<"lw", [fn |-> "phaseOf"]>> >> >>,
    <<[b |-> TRUE], << <<"lw", [fn |-> "ttOf"]>>, <<"color", [s |-> "red"]>> >> >>,
    <<[fn |-> "never"], << <<"lw", [fn |-> "phaseOf"]>> >> >>,
    <<[fn |-> "inAct"], << <<"color", [s |-> "red"]>> >> >>,
    <<[b |-> TRUE], << <<"color", [fn |-> "phaseOf"]>>, <<"lw", [fn |-> "inverse"]>>,
                       <<"ls", [fn |-> "phaseOf"]>> >> >> }

ActorSet ==
  {Actor_init(cls, ts, c[1], Geometry(cls) \o c[2]) :
     cls \in Classes, ts \in Timelines, c \in Constructions}

\* timelines of two markers or more, in any order, repeats included
AnyTimelines == UNION {[1..n -> 0..MaxMark] : n \in 2..MaxAnyLen}

AnyActorSet ==
  {Actor_init(cls, ts, [b |-> TRUE], Geometry(cls)) :
     cls \in {"TableGrid", "Text"}, ts \in AnyTimelines}

\* frames an actor is drawn at: around every marker and inside every interval
Frames(ts) ==
  UNION {{ts[i] - 1, ts[i], ts[i] + 1} : i \in DOMAIN ts}
  \cup {(ts[i] + ts[i + 1]) \div 2 : i \in 1..(Len(ts) - 1)}

Pattern == [pre |-> "frame", post |-> ".png"]

\* casts handed to perform: one actor, or two
ShortTimeline == <<0, 1, 2, 3>>

StageActors ==
  {Actor_init(cls, ShortTimeline, hs, Geometry(cls)) :
     cls \in Classes, hs \in {[b |-> TRUE], [b |-> FALSE]}}
  \cup {Actor_init(cls, ShiftedTimeline, [b |-> TRUE], Geometry(cls)) : cls \in {"Actor", "Text"}}

FirstActors == {a \in StageActors : a.ts = ShortTimeline /\ a.has_shadow = [b |-> FALSE]}

SecondActors ==
  {Actor_init(cls, ShortTimeline, [b |-> TRUE], Geometry(cls)) : cls \in {"TableGrid", "Text"}}

\* an actor with a parameter that follows the phase
DynamicActor ==
  Actor_init("TableGrid", ShortTimeline, [b |-> TRUE],
             Geometry("TableGrid") \o << <<"lw", [fn |-> "phaseOf"]>> >>)

Casts ==
  {<<a>> : a \in StageActors} \cup {<<a, b>> : a \in FirstActors, b \in SecondActors}
  \cup {<<DynamicActor>>}

StageFrames(as) == Frames(as[1].ts)

\* ------------------------------------------------------------------ actions
Fresh ==
  /\ call = [op |-> "init"]
  /\ loc = [ret |-> "none"]
  /\ calls = <<>>
  /\ exc = "none"

Init == (\E a \in ActorSet : actors = <<a>>) /\ Fresh

InitPerform == actors \in Casts /\ Fresh

\* actors both revisions are run on: constant parameters only
RevisionActors ==
  {Actor_init(cls, ts, [b |-> hs], Geometry(cls)) :
     cls \in {"Actor", "TableGrid"}, ts \in Timelines, hs \in BOOLEAN}

InitRevisions == (\E a \in RevisionActors : actors = <<a>>) /\ Fresh

InitAny == (\E a \in AnyActorSet : actors = <<a>>) /\ Fresh

\* actors[i].draw(pb, t, shadow)
Draw(i, t, shadow) ==
  LET d == draw(actors[i], t, shadow)
  IN  /\ actors' = [actors EXCEPT ![i] = d.actor]
      /\ call' = [op |-> "draw", i |-> i, t |-> t, shadow |-> shadow]
      /\ loc' = d.loc
      /\ calls' = d.log
      /\ exc' = d.exc

\* perform(pb, actors, f0, f1, oufn_pat, shadow)
Perform(f0, f1, shadow) ==
  LET p == perform(actors, f0, f1, Pattern, shadow)
  IN  /\ actors' = p.actors
      /\ call' = [op |-> "perform", f0 |-> f0, f1 |-> f1, shadow |-> shadow]
      /\ loc' = [ret |-> "none"]
      /\ calls' = p.log
      /\ exc' = p.exc

\* arguments of the helper functions
Grid == {Rat(k, d) : k \in (0 - MaxDen)..(2 * MaxDen), d \in 1..MaxDen}

LinterpArgs ==
  {[op |-> "linterp", x0 |-> Num(x0), y0 |-> Num(y0), x1 |-> x1, y1 |-> Num(y1), x |-> x] :
     x0 \in 0..MaxArg, y0 \in -1..MaxArg, x1 \in Grid, y1 \in -1..MaxArg, x \in Grid}

SmoothArgs == {[op |-> "smooth", xs |-> <<a, b>>] : a \in Grid, b \in Grid}

InitMath ==
  /\ actors = <<>>
  /\ call \in LinterpArgs \cup SmoothArgs
  /\ loc = [ret |-> "none"]
  /\ calls = <<>>
  /\ exc = "none"

\* linterp(x0, y0, x1, y1, x) on the arguments drawn
CallLinterp ==
  /\ call.op = "linterp" /\ loc.ret = "none"
  /\ IF linterpRaises(call.x0, call.x1)
       THEN loc' = [ret |-> "raise"] /\ exc' = "ZeroDivisionError"
       ELSE /\ loc' = [ret |-> "value",
                       v |-> linterp(call.x0, call.y0, call.x1, call.y1, call.x)]
            /\ exc' = exc
  /\ UNCHANGED <<actors, call, calls>>

\* smooth(x) on the next of the arguments drawn
CallSmooth ==
  /\ call.op = "smooth" /\ Len(calls) < Len(call.xs)
  /\ calls' = Append(calls, [op |-> "smooth", x |-> call.xs[Len(calls) + 1],
                             v |-> smooth(call.xs[Len(calls) + 1])])
  /\ UNCHANGED <<actors, call, loc, exc>>

\* the older revision's draw on an actor of the same timeline
DrawOlder(i, t, shadow) ==
  LET d == older_draw(actors[i].ts, t, shadow)
  IN  /\ call' = [op |-> "draw_older", i |-> i, t |-> t, shadow |-> shadow]
      /\ loc' = d.loc
      /\ calls' = d.log
      /\ exc' = d.exc
      /\ UNCHANGED actors

DrawOlderAny ==
  \E i \in DOMAIN actors : \E t \in Frames(actors[i].ts) : \E shadow \in BOOLEAN :
    DrawOlder(i, t, shadow)

DrawAny ==
  \E i \in DOMAIN actors : \E t \in Frames(actors[i].ts) : \E shadow \in BOOLEAN :
    Draw(i, t, shadow)

PerformAny ==
  \E f0 \in StageFrames(actors) : \E f1 \in (f0 - 1)..(f0 + MaxSpan) : \E shadow \in BOOLEAN :
    Perform(f0, f1, shadow)

Next == DrawAny

NextPerform == DrawAny \/ PerformAny

NextMath == CallLinterp \/ CallSmooth

NextRevisions == DrawAny \/ DrawOlderAny

\* draw calls on one actor
Spec == Init /\ [][Next]_vars

\* draw calls and perform runs on a cast
SpecPerform == InitPerform /\ [][NextPerform]_vars

\* draw calls on one actor whose timeline need not be increasing
SpecAny == InitAny /\ [][Next]_vars

\* draw calls of both revisions on one actor
SpecRevisions == InitRevisions /\ [][NextRevisions]_vars

\* the helper functions on drawn arguments
SpecMath == InitMath /\ [][NextMath]_vars

\* ================================================================ properties
\* vocabulary of the statements below
IsDraw == call.op = "draw"
Me == actors[call.i]                       \* the actor of the last draw call
N == Len(Me.ts)
InRange == At(Me.ts, 0) <= call.t /\ call.t < Last(Me.ts)
Dispatched == loc.ret = "dispatch"
\* the call located its phase and a resolver raised before the dispatch
ResolverRaised == loc.ret = "raise" /\ "phase" \in DOMAIN loc
WellFormed == StrictlyIncreasing(Me.ts) /\ N >= 4

IsResolve(e) == e.op = "resolve"
IsHandler(e) == e.op \in {"_enter", "_act", "_leave"}
IsPrim(e) == e.op \in {"line", "text"}
IsActEv(e) == e.op = "_act"
IsEnterEv(e) == e.op = "_enter"
IsLeaveEv(e) == e.op = "_leave"

\* the stage handler draw dispatched to: the first event after the resolvers
Stage == calls[Len(Me.callables) + 1]

\* the interval a frame lies in, read off the timeline (0-based)
IntervalOf(ts, f) == CHOOSE i \in 0..(Len(ts) - 2) : At(ts, i) <= f /\ f < At(ts, i + 1)

Half == [n |-> 1, d |-> 2]

\* C1: for a strictly increasing timeline of N >= 4 markers and a frame in
\* [ts[0], ts[-1]), draw (when no resolver raises) either skips the shadow pass
\* or dispatches, the main pass always dispatches, and a dispatch carries a phase in {0,-1} \cup 1..N-3
\* and a local time 0 <= tt < 1, handed to the stage handler of that phase.
C1_PhaseAndLocalTimeInRange ==
  (IsDraw /\ WellFormed /\ InRange /\ ~ResolverRaised) =>
    /\ loc.ret \in {"skip", "dispatch"}
    /\ ~call.shadow => Dispatched
    /\ Dispatched =>
         /\ loc.found
         /\ loc.phase \in ({0, -1} \cup 1..(N - 3))
         /\ RLeq(Num(0), loc.tt) /\ RLess(loc.tt, Num(1))
         /\ Stage.tt = loc.tt
         /\ Stage.op = (IF loc.phase = 0 THEN "_enter"
                        ELSE IF loc.phase = -1 THEN "_leave" ELSE "_act")

C1_Witness ==
  /\ IsDraw /\ WellFormed /\ InRange /\ Dispatched
  /\ N = 5 /\ loc.phase = 2 /\ RLess(loc.tt, Num(1))

\* C2: a draw at a frame before ts[0] or at/after ts[-1] returns normally,
\* evaluates no resolver, invokes no stage handler and issues no canvas
\* primitive, in the shadow pass and in the main pass.
C2_OutOfRangeIsNoOp ==
  (IsDraw /\ (call.t < At(Me.ts, 0) \/ call.t >= Last(Me.ts))) =>
    /\ exc = "none"
    /\ loc.ret = "skip"
    /\ calls = <<>>

C2_Witness ==
  /\ IsDraw /\ call.t = Last(Me.ts) /\ ~call.shadow
  /\ Me.callables # <<>> /\ Me.cls = "TableGrid"
  /\ calls = <<>> /\ exc = "none"

\* C3: a dispatching draw selects the smallest interval index i in 0..N-2 with
\* f < ts[i+1], local time (f - ts[i]) / (ts[i+1] - ts[i]), and phase 0 for
\* i = 0, -1 for i = N-2, and i itself for 1 <= i <= N-3.
C3_FirstIntervalAndRemap ==
  (IsDraw /\ WellFormed /\ InRange /\ Dispatched) =>
    LET hits == {i \in 0..(N - 2) : call.t < At(Me.ts, i + 1)}
        i == loc.i_phase
    IN  /\ i \in hits
        /\ \A j \in hits : i <= j
        /\ loc.tt = Rat(call.t - At(Me.ts, i), At(Me.ts, i + 1) - At(Me.ts, i))
        /\ (i = 0) => loc.phase = 0
        /\ (i = N - 2) => loc.phase = -1
        /\ (1 <= i /\ i <= N - 3) => loc.phase = i

C3_Witness ==
  /\ IsDraw /\ WellFormed /\ InRange /\ Dispatched
  /\ loc.i_phase = 1 /\ loc.phase = 1
  /\ call.t > At(Me.ts, 1) /\ loc.tt = Half

\* C4: a dispatching draw at a marker ts[i], i < N-1, has local time exactly 0
\* in the interval that starts at that marker; at ts[0] the phase is 0 and at
\* ts[-2] the phase is -1.
C4_MarkerFrames ==
  (IsDraw /\ WellFormed /\ Dispatched) =>
    /\ \A i \in 0..(N - 2) :
         call.t = At(Me.ts, i) => (loc.i_phase = i /\ loc.tt = Num(0))
    /\ call.t = At(Me.ts, 0) => loc.phase = 0
    /\ call.t = At(Me.ts, N - 2) => loc.phase = -1

C4_Witness ==
  /\ IsDraw /\ WellFormed /\ Dispatched
  /\ N = 5 /\ call.t = At(Me.ts, N - 2) /\ loc.phase = -1 /\ loc.tt = Num(0)

\* C5: of the N-1 intervals the N-3 interior ones are act phases numbered
\* 1..N-3: a frame of interval i, 1 <= i <= N-3, is dispatched to the act
\* handler with phase i.  For ts = [0,10,50,60]: frame 5 is (phase 0, 0.5),
\* frame 30 goes to act with phase 1 and local time 0.5, frame 55 is
\* (phase -1, 0.5).
C5_ActPhasesNumbered ==
  (IsDraw /\ WellFormed /\ InRange /\ Dispatched) =>
    LET i == IntervalOf(Me.ts, call.t)
    IN  /\ (1 <= i /\ i <= N - 3) <=> Stage.op = "_act"
        /\ Stage.op = "_act" => (Stage.phase = i /\ Stage.phase \in 1..(N - 3))
        /\ Me.ts = LongTimeline =>
             /\ call.t = 5 => (loc.phase = 0 /\ loc.tt = Half /\ Stage.op = "_enter")
             /\ call.t = 30 => (Stage.op = "_act" /\ Stage.phase = 1 /\ Stage.tt = Half)
             /\ call.t = 55 => (loc.phase = -1 /\ loc.tt = Half /\ Stage.op = "_leave")

C5_Witness ==
  /\ IsDraw /\ Me.ts = LongTimeline /\ call.t = 30 /\ Dispatched
  /\ Stage.op = "_act" /\ Stage.phase = 1 /\ Stage.tt = Half

\* C6 as stated: with exactly 4 markers, interval 1 (frames in [ts[1], ts[2]))
\* is remapped to phase -1 and no in-range frame reaches the act stage.
C6_FourMarkersNoActPhase ==
  (IsDraw /\ WellFormed /\ N = 4 /\ InRange /\ Dispatched) =>
    /\ Stage.op # "_act"
    /\ (At(Me.ts, 1) <= call.t /\ call.t < At(Me.ts, 2)) => loc.phase = -1

\* C6 (amended): with exactly 4 markers there is exactly one act phase:
\* frames in [ts[0], ts[1]) enter, frames in [ts[1], ts[2]) are dispatched to
\* the act stage with phase 1, and only frames in [ts[2], ts[3]) are remapped
\* to phase -1 (leave).
C6_FourMarkersOneActPhase ==
  (IsDraw /\ WellFormed /\ N = 4 /\ InRange /\ Dispatched) =>
    /\ call.t < At(Me.ts, 1) => (loc.phase = 0 /\ Stage.op = "_enter")
    /\ (At(Me.ts, 1) <= call.t /\ call.t < At(Me.ts, 2)) =>
         (loc.phase = 1 /\ Stage.op = "_act" /\ Stage.phase = 1)
    /\ At(Me.ts, 2) <= call.t => (loc.phase = -1 /\ Stage.op = "_leave")

C6_Witness ==
  /\ IsDraw /\ WellFormed /\ N = 4 /\ Dispatched
  /\ call.t = At(Me.ts, 1) /\ Stage.op = "_act" /\ Stage.phase = 1
  /\ Me.ts # LongTimeline

\* the parameters draw hands to the stage handler: the constructor's
\* constants and, for every dynamic name, the value resolved at (phase, tt)
Resolved ==
  [k \in DOMAIN Me.kwargs |->
     IF \E j \in DOMAIN Me.callables : Me.callables[j][1] = k
       THEN Apply(Me.callables[CHOOSE j \in DOMAIN Me.callables : Me.callables[j][1] = k][2],
                  loc.phase, loc.tt)
       ELSE Me.kwargs[k]]

ActEvents == SelectSeq(calls, IsActEv)
EnterEvents == SelectSeq(calls, IsEnterEv)
Prims(log) == SelectSeq(log, IsPrim)

DefaultEnter == Me.cls \in {"Actor", "TableGrid"}
EnterActorKind == Me.cls \in {"EnterActor", "Text"}

C9_EnterActorHolds ==
  (IsDraw /\ WellFormed /\ EnterActorKind /\ Dispatched) =>
    /\ Len(EnterEvents) = 1
    /\ EnterEvents[1].cls = Me.cls
    /\ EnterEvents[1].shadow = call.shadow
    /\ EnterEvents[1].kw = Resolved
    /\ loc.phase = 0 =>
         (EnterEvents[1].tt = loc.tt /\ EnterEvents[1].alpha = Num(1) /\ Len(ActEvents) = 0)
    /\ loc.phase >= 1 =>
         /\ Len(ActEvents) = 1
         /\ EnterEvents[1].tt = Num(1)
         /\ EnterEvents[1].alpha = ActEvents[1].alpha
         /\ EnterEvents[1].alpha = Num(1)
    /\ loc.phase = -1 =>
         /\ Len(ActEvents) = 1
         /\ EnterEvents[1].tt = Num(1)
         /\ EnterEvents[1].alpha = RSub(Num(1), loc.tt)

C9_Witness ==
  /\ IsDraw /\ WellFormed /\ Me.cls = "Text" /\ Dispatched
  /\ loc.phase = 1 /\ loc.tt = Half
  /\ Len(EnterEvents) = 1 /\ EnterEvents[1].tt = Num(1) /\ EnterEvents[1].alpha = Num(1)
  /\ Len(Prims(calls)) = 1

\* a draw call (actor i, frame t, pass shadow) that passes the early return
Passes(i, t, shadow) ==
  /\ At(actors[i].ts, 0) <= t /\ t < Last(actors[i].ts)
  /\ ~(shadow /\ actors[i].has_shadow = [b |-> FALSE])

IsDrawEv(e) == e.op = "draw"
IsCanvasEv(e) == e.op \in {"clear", "line", "text", "update", "savepng"}
IsSaveEv(e) == e.op = "savepng"

\* C10: a base Actor without an act override raises NotImplementedError on
\* every draw call that passes the early return, in the enter, act and leave
\* stages alike; the error leaves draw and leaves perform, which draws no
\* further actor and touches the canvas no more; the call issues no primitive.
C10_BaseActorRaises ==
  /\ (IsDraw /\ Me.cls = "Actor" /\ Passes(call.i, call.t, call.shadow)) =>
       /\ exc = "NotImplementedError"
       /\ Prims(calls) = <<>>
       /\ Len(ActEvents) = 1 /\ ActEvents[1].cls = "Actor"
  /\ call.op = "perform" =>
       \A k \in DOMAIN calls :
         (/\ IsDrawEv(calls[k])
          /\ actors[calls[k].i].cls = "Actor"
          /\ Passes(calls[k].i, calls[k].t, calls[k].shadow)) =>
           /\ exc = "NotImplementedError"
           /\ \A m \in (k + 1)..Len(calls) : ~IsDrawEv(calls[m]) /\ ~IsCanvasEv(calls[m])

C10_Witness ==
  /\ call.op = "perform" /\ exc = "NotImplementedError"
  /\ Len(actors) = 2 /\ actors[1].cls = "Actor" /\ actors[1].has_shadow = [b |-> FALSE]
  /\ Len(SelectSeq(calls, IsSaveEv)) = 1
  /\ calls[Len(calls)].op = "_act" /\ calls[Len(calls)].phase = 0

\* the phase and local time of an in-range frame, read off the timeline
FramePhase ==
  LET i == IntervalOf(Me.ts, call.t)
  IN  IF i = N - 2 THEN -1 ELSE i

FrameTT ==
  LET i == IntervalOf(Me.ts, call.t)
  IN  Rat(call.t - At(Me.ts, i), At(Me.ts, i + 1) - At(Me.ts, i))

\* has-shadow is false for the frame: the constant False, or a provider that
\* resolves to False at the frame's (phase, tt)
HasShadowFalse ==
  IF callable(Me.has_shadow)
    THEN Apply(Me.has_shadow, FramePhase, FrameTT) = [b |-> FALSE]
    ELSE Me.has_shadow = [b |-> FALSE]

\* C11: for an actor whose has-shadow is false, as a constant or as a provider
\* resolving to false for the frame, the shadow pass of draw at an in-range
\* frame is a no-op: no resolver evaluated, no handler invoked, no primitive.
C11_ShadowSuppression ==
  (IsDraw /\ WellFormed /\ InRange /\ call.shadow /\ HasShadowFalse) =>
    /\ loc.ret = "skip"
    /\ calls = <<>>
    /\ exc = "none"

\* the construction an actor came from: same class, timeline, has_shadow and
\* dynamic parameters, same keyword names, same constants
CameFrom(a, a0) ==
  /\ a.cls = a0.cls /\ a.ts = a0.ts /\ a.has_shadow = a0.has_shadow
  /\ a.callables = a0.callables
  /\ (DOMAIN a0.kwargs) \subseteq DOMAIN a.kwargs
  /\ \A k \in DOMAIN a0.kwargs : ~callable(a0.kwargs[k]) => a.kwargs[k] = a0.kwargs[k]

Construction == CHOOSE a0 \in ActorSet : CameFrom(Me, a0)

DynamicNames == {Me.callables[j][1] : j \in DOMAIN Me.callables}
StaticNames == {k \in DOMAIN Construction.kwargs : ~callable(Construction.kwargs[k])}

\* C12: the split of the named parameters into constants and resolvers is the
\* one made at construction, whatever draw calls were made; a draw at an
\* in-range frame that is not a suppressed shadow pass, with resolvers that
\* return, evaluates every resolver exactly once, in order, with the call's (remapped phase, tt),
\* before the stage handler; the handler receives the resolved value under
\* every dynamic name and the construction constant under every static name.
C12_ParameterResolution ==
  /\ \A i \in DOMAIN actors : \E a0 \in ActorSet : CameFrom(actors[i], a0)
  /\ (IsDraw /\ WellFormed /\ InRange /\ (~call.shadow \/ ~HasShadowFalse) /\ ~ResolverRaised)
       => Dispatched
  /\ (IsDraw /\ WellFormed /\ Dispatched) =>
       /\ Len(SelectSeq(calls, IsResolve)) = Len(Me.callables)
       /\ \A j \in DOMAIN Me.callables :
            calls[j] = EvResolve(Me.callables[j][1], loc.phase, loc.tt)
       /\ IsHandler(Stage)
       /\ DOMAIN Stage.kw = DynamicNames \cup StaticNames
       /\ \A j \in DOMAIN Me.callables :
            Stage.kw[Me.callables[j][1]] = Apply(Me.callables[j][2], loc.phase, loc.tt)
       /\ \A k \in StaticNames : Stage.kw[k] = Construction.kwargs[k]

C12_Witness ==
  /\ IsDraw /\ WellFormed /\ Dispatched /\ Me.cls = "TableGrid"
  /\ loc.phase = 1 /\ loc.tt = Half
  /\ calls[1] = EvResolve("lw", 1, Half)
  /\ Stage.op = "_act" /\ Stage.kw.lw = Half /\ Stage.kw.color = [s |-> "red"]

IsPerform == call.op = "perform"
IsClear(ev) == ev.op = "clear"
IsUpdate(ev) == ev.op = "update"

\* positions of the events of a kind in the trace, and the k-th of them
Where(P(_)) == {j \in DOMAIN calls : P(calls[j])}
Kth(P(_), k) == CHOOSE j \in Where(P) : Cardinality({i \in Where(P) : i <= j}) = k

FrameCount == IF call.f1 > call.f0 THEN call.f1 - call.f0 ELSE 0

\* C13: a perform(f0, f1) in which no draw raises clears the canvas and
\* exports a file max(0, f1-f0) times each; the k-th frame is f0+k-1: its
\* clear comes first, then its draw calls (all at that frame, the main pass
\* once per actor), then update, then the export named by that frame number,
\* and the next frame's clear follows the export directly.
C13_FrameLoop ==
  (IsPerform /\ exc = "none") =>
    /\ Cardinality(Where(IsClear)) = FrameCount
    /\ Cardinality(Where(IsUpdate)) = FrameCount
    /\ Cardinality(Where(IsSaveEv)) = FrameCount
    /\ FrameCount = 0 => calls = <<>>
    /\ \A k \in 1..FrameCount :
         LET c == Kth(IsClear, k)
             s == Kth(IsSaveEv, k)
         IN  /\ c = (IF k = 1 THEN 1 ELSE Kth(IsSaveEv, k - 1) + 1)
             /\ c < s
             /\ IsUpdate(calls[s - 1])
             /\ calls[s].oufn = Format(Pattern, call.f0 + k - 1)
             /\ k = FrameCount => s = Len(calls)
             /\ \A j \in c..s : IsDrawEv(calls[j]) => calls[j].t = call.f0 + k - 1
             /\ \A i \in DOMAIN actors :
                  Cardinality({j \in c..s : calls[j] = EvDraw(i, call.f0 + k - 1, FALSE)}) = 1

C13_Witness ==
  /\ IsPerform /\ exc = "none" /\ call.f0 = 0 /\ call.f1 = 3
  /\ Len(actors) = 2
  /\ SelectSeq(calls, IsSaveEv) =
       << [op |-> "savepng", oufn |-> <<"frame", 0, ".png">>],
          [op |-> "savepng", oufn |-> <<"frame", 1, ".png">>],
          [op |-> "savepng", oufn |-> <<"frame", 2, ".png">>] >>
  /\ \E j \in DOMAIN calls : IsPrim(calls[j]) /\ calls[j].op = "line"

\* the draw calls of one pass over the cast, in cast order
PassDraws(f, shadow) == [i \in DOMAIN actors |-> EvDraw(i, f, shadow)]

\* the draw call a traced event was made in: the last one before it
OwnerDraw(j) == calls[CHOOSE d \in Where(IsDrawEv) : d < j /\ \A e \in Where(IsDrawEv) : e < j => e <= d]

\* the frame of a traced event: the number of clears up to it
FrameOf(j) == Cardinality({c \in Where(IsClear) : c <= j})

ShadowPrims == {j \in Where(IsPrim) : OwnerDraw(j).shadow}
MainPrims == {j \in Where(IsPrim) : ~OwnerDraw(j).shadow}

\* C14: in a perform with shadows enabled, the draw calls of a frame are the
\* shadow pass over all actors in cast order, then the main pass over all
\* actors in cast order, so every primitive of the frame's shadow pass comes
\* before every primitive of its main pass; with shadows disabled the frame's
\* draw calls are the main pass alone and no draw call has shadow=true.
C14_ShadowPassFirst ==
  IsPerform =>
    /\ \A p \in ShadowPrims : \A q \in MainPrims : FrameOf(p) = FrameOf(q) => p < q
    /\ ~call.shadow => \A j \in Where(IsDrawEv) : ~calls[j].shadow
    /\ exc = "none" =>
         \A k \in 1..FrameCount :
           SelectSeq(SubSeq(calls, Kth(IsClear, k), Kth(IsSaveEv, k)), IsDrawEv) =
             (IF call.shadow THEN PassDraws(call.f0 + k - 1, TRUE) ELSE <<>>)
             \o PassDraws(call.f0 + k - 1, FALSE)

C14_Witness ==
  /\ IsPerform /\ call.shadow /\ exc = "none" /\ FrameCount = 2 /\ Len(actors) = 2
  /\ \E p \in ShadowPrims : \E q \in MainPrims :
       /\ FrameOf(p) = 2 /\ FrameOf(q) = 2
       /\ OwnerDraw(p).i = 2 /\ OwnerDraw(q).i = 1

\* y0 + (y1-y0)*(x-x0)/(x1-x0)
Affine(x0, y0, x1, y1, x) ==
  RAdd(y0, RDiv(RMul(RSub(y1, y0), RSub(x, x0)), RSub(x1, x0)))

\* C15: linterp(x0,y0,x1,y1,x) with x1 # x0 returns y0 at x = x0, y1 at
\* x = x1 and the affine value y0 + (y1-y0)(x-x0)/(x1-x0) everywhere; with
\* x1 = x0 it returns nothing: ZeroDivisionError leaves the call.
C15_LinterpAffine ==
  (call.op = "linterp" /\ loc.ret # "none") =>
    IF call.x1 = call.x0
      THEN loc.ret = "raise" /\ exc = "ZeroDivisionError"
      ELSE /\ loc.ret = "value" /\ exc = "none"
           /\ loc.v = Affine(call.x0, call.y0, call.x1, call.y1, call.x)
           /\ call.x = call.x0 => loc.v = call.y0
           /\ call.x = call.x1 => loc.v = call.y1

C15_Witness ==
  /\ call.op = "linterp" /\ loc.ret = "value"
  /\ call.x0 = Num(1) /\ call.x1 = Rat(1, 2) /\ call.x = call.x1
  /\ call.y0 = Num(-1) /\ call.y1 = Num(1) /\ loc.v = Num(1)

C15_WitnessRaise ==
  call.op = "linterp" /\ call.x0 = Num(1) /\ call.x1 = Num(1) /\ loc.ret = "raise"

InUnit(x) == RLeq(Num(0), x) /\ RLeq(x, Num(1))

\* C16: smooth(x) = -2x^3 + 3x^2 = x^2 (3 - 2x): smooth(0) = 0, smooth(1) = 1,
\* smooth(1/2) = 1/2; of two arguments in [0,1] the larger has the larger or
\* equal value; smooth(x) + smooth(1-x) = 1.
C16_SmoothCubic ==
  call.op = "smooth" =>
    /\ \A j \in DOMAIN calls :
         /\ calls[j].x = call.xs[j]
         /\ calls[j].v = RMul(RMul(calls[j].x, calls[j].x),
                              RSub(Num(3), RMul(Num(2), calls[j].x)))
         /\ calls[j].x = Num(0) => calls[j].v = Num(0)
         /\ calls[j].x = Num(1) => calls[j].v = Num(1)
         /\ calls[j].x = Half => calls[j].v = Half
    /\ \A j, k \in DOMAIN calls :
         /\ (InUnit(calls[j].x) /\ InUnit(calls[k].x) /\ RLeq(calls[j].x, calls[k].x))
              => RLeq(calls[j].v, calls[k].v)
         /\ calls[k].x = RSub(Num(1), calls[j].x) => RAdd(calls[j].v, calls[k].v) = Num(1)

C16_Witness ==
  /\ call.op = "smooth" /\ Len(calls) = 2
  /\ calls[1].x = Rat(1, 4) /\ calls[2].x = Rat(3, 4)
  /\ calls[1].v = Rat(5, 32) /\ calls[2].v = Rat(27, 32)

CastMembers == UNION {{as[j] : j \in DOMAIN as} : as \in Casts}

\* actor i as it was constructed
StageConstruction(i) == CHOOSE c \in CastMembers : CameFrom(actors[i], c)

IsBoundary(e) == e.op \in {"draw", "clear", "update", "savepng"}

\* the events of the draw call traced at position j: up to the next call
Segment(j) ==
  LET ends == {k \in DOMAIN calls : k > j /\ IsBoundary(calls[k])} \cup {Len(calls) + 1}
  IN  SubSeq(calls, j + 1, (CHOOSE k \in ends : \A e \in ends : k <= e) - 1)

\* C17: draw has no memory: whatever draw calls came before, alone or inside
\* perform, a draw call evaluates and hands over exactly what the same call
\* on the actor as constructed does; the parameters depend on the
\* construction and the call's (phase, tt) only.
C17_DrawHasNoMemory ==
  /\ IsDraw =>
       /\ calls = draw(StageConstruction(call.i), call.t, call.shadow).log
       /\ Dispatched => \A j \in DOMAIN Me.callables :
            Stage.kw[Me.callables[j][1]] = Apply(Me.callables[j][2], loc.phase, loc.tt)
  /\ IsPerform =>
       \A j \in Where(IsDrawEv) :
         Segment(j) = draw(StageConstruction(calls[j].i), calls[j].t, calls[j].shadow).log

C17_Witness ==
  /\ IsPerform /\ actors[1].callables # <<>>
  /\ \E j, k \in Where(IsActEv) :
       /\ j < k
       /\ calls[j].phase = 1 /\ calls[j].kw.lw = Num(1)
       /\ calls[k].phase = -1 /\ calls[k].kw.lw = Num(-1)

\* the exception the draw call traced at position j ended with
RaisedBy(j) == draw(StageConstruction(calls[j].i), calls[j].t, calls[j].shadow).exc

\* C18: perform isolates nothing: a draw call that raises in frame f is the
\* last event of the run and its exception leaves perform; no later actor is
\* drawn, frame f is neither updated nor exported, no later frame is cleared,
\* drawn or exported, and the exports of frames f0..f-1 are in the trace.
C18_NoFailureIsolation ==
  IsPerform =>
    /\ \A j \in Where(IsDrawEv) :
         RaisedBy(j) # "none" =>
           /\ exc = RaisedBy(j)
           /\ \A k \in DOMAIN calls : k > j => ~IsBoundary(calls[k])
           /\ Cardinality(Where(IsClear)) = calls[j].t - call.f0 + 1
           /\ Cardinality(Where(IsUpdate)) = calls[j].t - call.f0
           /\ SelectSeq(calls, IsSaveEv) =
                [k \in 1..(calls[j].t - call.f0) |->
                   [op |-> "savepng", oufn |-> Format(Pattern, call.f0 + k - 1)]]
    /\ exc # "none" => \E j \in Where(IsDrawEv) : RaisedBy(j) = exc

C18_Witness ==
  /\ IsPerform /\ call.shadow /\ exc = "NotImplementedError" /\ Len(actors) = 2
  /\ call.f0 = -1 /\ call.f1 = 2
  /\ Cardinality(Where(IsSaveEv)) = 1
  /\ calls[Len(calls) - 1] = EvDraw(1, 0, FALSE)
  /\ \E p \in ShadowPrims : OwnerDraw(p) = EvDraw(2, 0, TRUE)

\* the resolvers of the actor that raise at the frame's (phase, tt)
RaisingAt == {j \in DOMAIN Me.callables : ApplyRaises(Me.callables[j][2], FramePhase, FrameTT)}
FirstRaising == CHOOSE j \in RaisingAt : \A k \in RaisingAt : j <= k

\* C19: when a resolver raises in a draw call that passed the early return,
\* the exception leaves draw; the resolvers before it and the raising one
\* were each evaluated once, none after it and none again; no stage handler
\* is dispatched and no primitive is issued.
C19_ResolverErrorSurfaces ==
  (IsDraw /\ WellFormed /\ InRange /\ ~(call.shadow /\ Me.has_shadow = [b |-> FALSE])
     /\ RaisingAt # {}) =>
    /\ exc = "ZeroDivisionError"
    /\ ResolverRaised
    /\ calls = [j \in 1..FirstRaising |-> EvResolve(Me.callables[j][1], loc.phase, loc.tt)]
    /\ loc.phase = FramePhase /\ loc.tt = FrameTT
    /\ \A j \in DOMAIN calls : ~IsHandler(calls[j]) /\ ~IsPrim(calls[j])

C19_Witness ==
  /\ IsDraw /\ InRange /\ Me.cls = "TableGrid" /\ Len(Me.callables) = 3
  /\ exc = "ZeroDivisionError" /\ loc.tt = Half
  /\ calls = <<EvResolve("color", 0, Half), EvResolve("lw", 0, Half)>>

\* C20: for an actor with the default enter and leave (and no alpha keyword),
\* the alpha the act handler receives lies in [0,1]: in the enter interval it
\* is the local time, in [0,1) and 0 at ts[0]; in the leave interval it is
\* 1 - local time, in (0,1] and 1 at ts[-2]; in an act phase it is 1.
C20_AlphaInUnitInterval ==
  (IsDraw /\ WellFormed /\ DefaultEnter /\ Dispatched) =>
    /\ Len(ActEvents) = 1
    /\ InUnit(ActEvents[1].alpha)
    /\ loc.phase = 0 =>
         /\ ActEvents[1].alpha = FrameTT
         /\ RLess(ActEvents[1].alpha, Num(1))
         /\ call.t = At(Me.ts, 0) => ActEvents[1].alpha = Num(0)
    /\ loc.phase = -1 =>
         /\ ActEvents[1].alpha = RSub(Num(1), FrameTT)
         /\ RLess(Num(0), ActEvents[1].alpha)
         /\ call.t = At(Me.ts, N - 2) => ActEvents[1].alpha = Num(1)
    /\ loc.phase >= 1 => ActEvents[1].alpha = Num(1)

C20_Witness ==
  /\ IsDraw /\ WellFormed /\ Me.cls = "TableGrid" /\ Dispatched
  /\ Me.ts = LongTimeline /\ call.t = 50 /\ loc.phase = -1
  /\ Len(ActEvents) = 1 /\ ActEvents[1].alpha = Num(1)
  /\ Prims(calls) # <<>>

\* C21: for a timeline of two markers or more, increasing or not, and a frame
\* with ts[0] <= f < ts[-1] (not a suppressed shadow pass), the scan of draw
\* ends in an interval i with ts[i] <= f < ts[i+1]: the no-match fallback is
\* not taken, linterp does not divide by zero, and tt = (f-ts[i])/(ts[i+1]-ts[i])
\* lies in [0,1).
C21_ScanAlwaysHits ==
  (IsDraw /\ N >= 2 /\ InRange /\ ~(call.shadow /\ Me.has_shadow = [b |-> FALSE])) =>
    /\ exc # "ZeroDivisionError"
    /\ Dispatched
    /\ loc.found
    /\ loc.i_phase \in 0..(N - 2)
    /\ At(Me.ts, loc.i_phase) <= call.t /\ call.t < At(Me.ts, loc.i_phase + 1)
    /\ loc.tt = Rat(call.t - At(Me.ts, loc.i_phase),
                    At(Me.ts, loc.i_phase + 1) - At(Me.ts, loc.i_phase))
    /\ RLeq(Num(0), loc.tt) /\ RLess(loc.tt, Num(1))

C21_Witness ==
  /\ IsDraw /\ Me.ts = <<0, 2, 1, 3>> /\ call.t = 2
  /\ Dispatched /\ loc.found /\ loc.i_phase = 2 /\ loc.tt = Half

\* the draw call traced at position j reached a stage handler, and which
Drawn(j) == SelectSeq(Segment(j), IsHandler) # <<>>
StageOf(j) == SelectSeq(Segment(j), IsHandler)[1]

\* position of a stage in the life cycle: enter 0, act p at p, leave last
StageRank(j) ==
  IF IsEnterEv(StageOf(j)) THEN 0
  ELSE IF IsActEv(StageOf(j)) THEN StageOf(j).phase
  ELSE Len(actors[calls[j].i].ts) - 2

\* two draw calls of one pass kind on one actor, the second one later
SamePass(j, k) ==
  /\ j < k /\ calls[j].i = calls[k].i /\ calls[j].shadow = calls[k].shadow

\* the pass draws the actor when the frame is in range
PassDrawsActor(j) == ~calls[j].shadow \/ Truthy(actors[calls[j].i].has_shadow)

\* C22: in a perform run every actor (strictly increasing timeline) is drawn
\* at increasing frames; the stage of a frame is that of the interval it lies
\* in (enter, act 1 .. act N-3, leave), nothing before ts[0] and from ts[-1]
\* on; so a later draw never has an earlier stage, the local time grows
\* strictly between two draws of one stage, and after a frame >= ts[-1] or
\* after a not-drawn frame that followed a drawn one nothing is drawn.
C22_LifeCycleProgression ==
  IsPerform =>
    /\ \A j \in Where(IsDrawEv) :
         LET ts == actors[calls[j].i].ts
             t == calls[j].t
         IN  /\ StrictlyIncreasing(ts)
             /\ Drawn(j) <=> (At(ts, 0) <= t /\ t < Last(ts) /\ PassDrawsActor(j))
             /\ Drawn(j) =>
                  /\ StageRank(j) = IntervalOf(ts, t)
                  /\ IsEnterEv(StageOf(j)) <=> IntervalOf(ts, t) = 0
                  /\ IsLeaveEv(StageOf(j)) <=> IntervalOf(ts, t) = Len(ts) - 2
    /\ \A j, k \in Where(IsDrawEv) :
         SamePass(j, k) =>
           /\ calls[j].t < calls[k].t
           /\ (Drawn(j) /\ Drawn(k)) =>
                /\ StageRank(j) <= StageRank(k)
                /\ StageRank(j) = StageRank(k) => RLess(StageOf(j).tt, StageOf(k).tt)
           /\ calls[j].t >= Last(actors[calls[j].i].ts) => ~Drawn(k)
           /\ (~Drawn(j) /\ \E h \in Where(IsDrawEv) : SamePass(h, j) /\ Drawn(h)) => ~Drawn(k)

C22_Witness ==
  /\ IsPerform /\ ~call.shadow /\ exc = "none" /\ Len(actors) = 1
  /\ actors[1].ts = ShiftedTimeline /\ call.f0 = 3 /\ call.f1 = 6
  /\ \E j, k, l \in Where(IsDrawEv) :
       /\ j < k /\ k < l
       /\ IsActEv(StageOf(j)) /\ StageOf(j).phase = 1 /\ StageOf(j).tt = Half
       /\ IsActEv(StageOf(k)) /\ StageOf(k).phase = 2 /\ StageOf(k).tt = Num(0)
       /\ IsLeaveEv(StageOf(l)) /\ StageOf(l).tt = Num(0)

\* a second reachable case: the last frames of the life cycle, after which
\* the actor is not drawn
C22_WitnessEnd ==
  /\ IsPerform /\ ~call.shadow /\ exc = "none" /\ Len(actors) = 1
  /\ actors[1].ts = ShortTimeline /\ call.f0 = 2 /\ call.f1 = 5
  /\ \E j, k \in Where(IsDrawEv) : j < k /\ Drawn(j) /\ IsLeaveEv(StageOf(j)) /\ ~Drawn(k)

IsDrawOlder == call.op = "draw_older"

\* what each revision does with the frame of the last call: the locals of the
\* revision that was called, and of the other one on the same actor and frame
LaterLoc == IF IsDraw THEN loc ELSE draw(Me, call.t, call.shadow).loc
OlderLoc == IF IsDrawOlder THEN loc ELSE older_draw(Me.ts, call.t, call.shadow).loc

\* the stage the later revision selected
LaterStage ==
  IF LaterLoc.ret = "skip" THEN "none"
  ELSE IF LaterLoc.phase = 0 THEN "enter"
  ELSE IF LaterLoc.phase = -1 THEN "leave" ELSE "act"

OlderStage == IF OlderLoc.ret = "dispatch" THEN OlderLoc.stage ELSE "none"

\* C23: for a strictly increasing timeline of N >= 4 markers (and a call that
\* is not a suppressed shadow pass), at every frame other than ts[-1] the
\* two revisions select the same stage and the same local time, and the
\* later revision's act phase is the older one's plus 1; at ts[-1] the older
\* revision dispatches leave with local time 1 and the later one returns
\* without drawing.
C23_RevisionsAgree ==
  ((IsDraw \/ IsDrawOlder) /\ WellFormed /\ ~(call.shadow /\ Me.has_shadow = [b |-> FALSE])) =>
    IF call.t = Last(Me.ts)
      THEN /\ OlderLoc.ret = "dispatch" /\ OlderLoc.stage = "leave" /\ OlderLoc.tt = Num(1)
           /\ LaterLoc.ret = "skip"
      ELSE /\ OlderLoc.ret \in {"skip", "dispatch"}
           /\ LaterStage = OlderStage
           /\ LaterStage # "none" => LaterLoc.tt = OlderLoc.tt
           /\ LaterStage = "act" => LaterLoc.phase = OlderLoc.phase + 1

C23_Witness ==
  /\ IsDrawOlder /\ Me.ts = LongTimeline /\ call.t = 60
  /\ loc.ret = "dispatch" /\ loc.stage = "leave" /\ loc.tt = Num(1)
  /\ calls[1].op = "leave"
  /\ draw(Me, call.t, call.shadow).loc.ret = "skip"

\* a second reachable case: an act phase, numbered 1 by the later revision
\* and 0 by the older one
C23_WitnessAct ==
  /\ IsDraw /\ Me.ts = LongTimeline /\ call.t = 30 /\ Dispatched
  /\ loc.phase = 1 /\ loc.tt = Half
  /\ OlderLoc.stage = "act" /\ OlderLoc.phase = 0 /\ OlderLoc.tt = Half

====
